---- MODULE Spec2Model ----
(***************************************************************************)
(* A model of the skill-migration scripts and of the BankAccount example:   *)
(*   scripts/migration/verify-skill-completeness.py  (completeness check)  *)
(*   scripts/migration/report-symlinks.py            (symlink reporter)    *)
(*   scripts/validate_skills.py                      (metadata validator)  *)
(*   examples/basic_examples.py                      (class BankAccount)   *)
(*                                                                         *)
(* A directory tree is a function from the paths that exist beneath a root *)
(* (sequences of names, <<>> being the root itself) to the kind of the     *)
(* node: "file", "dir", or "link" (a symbolic link to a directory).  The   *)
(* children recorded beneath a "link" node are the link target's children  *)
(* as seen through the link.  The empty function is a root that does not   *)
(* exist.                                                                  *)
(***************************************************************************)
EXTENDS Integers, Sequences, FiniteSets, TLC

VARIABLES
    pc,           \* position of the running main()
    out,          \* lines printed to standard output
    err,          \* lines printed to the error stream
    ret,          \* exit code, "none" while main() runs
    srcFs,        \* the tree under --source-root
    impFs,        \* the tree under --import-root
    imported_skill_files,  \* the sorted scan result (line 55)
    idx,          \* position of the for loop in imported_skill_files
    failures,     \* list of failure records (line 57)
    checked,      \* counter of checked pairs (line 58)
    scans,        \* history: how often the import root was enumerated
    calls,        \* history: argument and result of every visible_entries call
    run,          \* which run over the unchanged trees this is
    prev,         \* what the previous run printed and returned
    roots,        \* the trees under the roots given to report-symlinks.py
    rootIdx,      \* position of its for loop in the list of roots
    had_missing_root,  \* its flag of line 36
    tree,         \* the tree under the root given to detect_symlinked_skills
    skill_files,  \* what root.rglob(SKILL_FILE) handed back, in its order
    detected,     \* the list detect_symlinked_skills returned
    balance,      \* BankAccount.balance
    transaction_history,  \* BankAccount.transaction_history
    result,       \* what the last deposit or withdraw call returned
    initial,      \* history: the balance the account was created with
    ops,          \* history: every deposit and withdraw call and its result
    files,        \* the state of each file of REQUIRED_FILES
    fileIdx,      \* position of the for loop of validate_skills.main()
    args          \* what parse_args() returned to validate_skills.main()

ioVars == <<pc, out, err, ret>>

verifierVars == <<srcFs, impFs, imported_skill_files, idx, failures,
                  checked, scans, calls, run, prev>>

reporterVars == <<roots, rootIdx, had_missing_root>>

detectorVars == <<tree, skill_files, detected>>

accountVars == <<balance, transaction_history, result, initial, ops>>

validatorVars == <<files, fileIdx, args>>

vars == <<ioVars, verifierVars, reporterVars, detectorVars, accountVars,
          validatorVars>>

\* what the verifier's steps, and the reporter's, leave alone
besideVerifier == <<reporterVars, detectorVars, accountVars, validatorVars>>

besideReporter == <<verifierVars, detectorVars, accountVars, validatorVars>>

-----------------------------------------------------------------------------
(* Bounds of the model *)

\* entries beneath the import root and the source root (the roots not counted)
MaxImportEntries == 4
MaxSourceEntries == 2
\* runs of main() over the same trees
MaxRuns == 2
\* roots given to the symlink reporter, and entries beneath each
MaxRoots == 2
MaxRootEntries == 2
\* entries beneath the root given to detect_symlinked_skills
MaxDetectEntries == 4

-----------------------------------------------------------------------------
(* Names and their order *)

SKILL_FILE == "SKILL.md"

\* line 11 with an entry forgotten
IGNORED_NAMES_Short == {"__pycache__"}

IGNORED_NAMES == {".DS_Store", "__pycache__"}

DirNames == {"a", "b"}

LeafNames == {SKILL_FILE, "helper.py", ".DS_Store", "__pycache__"}

\* the names the trees of the verifier's runs are built from
ImportNames == {"a", "b", SKILL_FILE}
SourceNames == {"a", "b", "helper.py", ".DS_Store"}
\* the names the trees of the reporter's runs are built from
ReportNames == {"a", SKILL_FILE}
\* the names the trees given to detect_symlinked_skills are built from
DetectNames == {"a", "b", SKILL_FILE}

Names == DirNames \cup LeafNames

\* Python compares str by code point: '.' < 'S' < '_' < 'a' < 'b' < 'h'
NameRank ==
    [n \in Names |->
        CASE n = ".DS_Store"   -> 1
          [] n = "SKILL.md"    -> 2
          [] n = "__pycache__" -> 3
          [] n = "a"           -> 4
          [] n = "b"           -> 5
          [] n = "helper.py"   -> 6]

StrLess(x, y) == NameRank[x] < NameRank[y]

\* list comparison of the parts of two pure paths
RECURSIVE PartsLess(_, _)
PartsLess(p, q) ==
    IF q = <<>> THEN FALSE
    ELSE IF p = <<>> THEN TRUE
    ELSE IF Head(p) = Head(q) THEN PartsLess(Tail(p), Tail(q))
    ELSE StrLess(Head(p), Head(q))

-----------------------------------------------------------------------------
(* The file system *)

NoTree == <<>>

Exists(fs, p) == p \in DOMAIN fs

Range(s) == {s[i] : i \in 1..Len(s)}

Front(p) == SubSeq(p, 1, Len(p) - 1)

Last(p) == p[Len(p)]

\* Path.is_dir(): follows symbolic links
IsDir(fs, p) == Exists(fs, p) /\ fs[p] \in {"dir", "link"}

\* line 29 as a test of the directory and of every directory above it
IsSymlinkOrBeneath(fs, p) ==
    \E k \in 0..Len(p) :
        LET q == SubSeq(p, 1, k) IN q \in DOMAIN fs /\ fs[q] = "link"

\* Path.is_symlink()
IsSymlink(fs, p) == Exists(fs, p) /\ fs[p] = "link"

\* Path.iterdir(): the direct children of a directory
IterDir(fs, d) == {p \in DOMAIN fs : Len(p) = Len(d) + 1 /\ Front(p) = d}

RootOnly == (<<>> :> "dir")

\* the nodes one more entry can be: a name not yet used in a directory of fs
Attachable(fs, names) ==
    {Append(d, n) : d \in {x \in DOMAIN fs : IsDir(fs, x)}, n \in names}
        \ DOMAIN fs

\* what an entry of a name can be: kinds gives it for the names of DirNames
KindsOf(name, kinds) == IF name \in DirNames THEN kinds[name] ELSE {"file"}

\* the directory trees of at most n entries beneath the root
RECURSIVE TreesUpTo(_, _, _)
TreesUpTo(n, names, kinds) ==
    IF n = 0 THEN {RootOnly}
    ELSE LET smaller == TreesUpTo(n - 1, names, kinds)
         IN  smaller \cup
             UNION {UNION {{fs @@ (p :> k) : k \in KindsOf(Last(p), kinds)}
                              : p \in Attachable(fs, names)} : fs \in smaller}

\* a root that is missing, or is a plain file
BadRoots == {NoTree, (<<>> :> "file")}

-----------------------------------------------------------------------------
(* Paths as the scripts hold them: the root they were built from and the   *)
(* parts beneath it                                                        *)

PathOf(root, rel) == [root |-> root, rel |-> rel]

\* Path.relative_to(root)
RelativeTo(path, root) == path.rel

\* PurePath.parent of a relative path ("." is its own parent)
Parent(rel) == IF rel = <<>> THEN <<>> ELSE Front(rel)

\* root / rel
Join(root, rel) == PathOf(root, rel)

\* Path.__lt__: paths compare by their parts
PathLess(x, y) == PartsLess(x.rel, y.rel)

\* sorted(): the stable sort of the list s by the order less, a set of pairs
\* <<x, y>> with x before y; an element goes behind those that are less and
\* those before it that it is not less than
Sorted(s, less) ==
    LET before(i) == {j \in 1..Len(s) :
                         <<s[j], s[i]>> \in less \/ (<<s[i], s[j]>> \notin less /\ j < i)}
    IN  [k \in 1..Len(s) |-> s[CHOOSE i \in 1..Len(s) : Cardinality(before(i)) = k - 1]]

\* the pairs of members of the list s that are in the order StrLess
ByStr(s) == {pr \in Range(s) \X Range(s) : StrLess(pr[1], pr[2])}

\* the pairs of members of the list s that are in the order PathLess
ByPath(s) == {pr \in Range(s) \X Range(s) : PathLess(pr[1], pr[2])}

\* the orders in which a listing can hand back the members of S
RECURSIVE Orders(_)
Orders(S) ==
    IF S = {} THEN {<<>>}
    ELSE UNION {{<<x>> \o o : o \in Orders(S \ {x})} : x \in S}

-----------------------------------------------------------------------------
(* Path.rglob(SKILL_FILE): "**" walks the root and every directory beneath *)
(* it that is not a symbolic link; SKILL_FILE is matched by name in each   *)

\* "**" as "*": the directory and its direct subdirectories only
WalkOneLevel(fs, d) ==
    {d} \cup {x \in {p \in DOMAIN fs : Len(p) = Len(d) + 1 /\ SubSeq(p, 1, Len(d)) = d} :
                 fs[x] = "dir"}

RECURSIVE WalkDirs(_, _)
WalkDirs(fs, d) ==
    {d} \cup UNION {WalkDirs(fs, c) : c \in {x \in IterDir(fs, d) : fs[x] = "dir"}}

RGlob(fs) ==
    {Append(d, SKILL_FILE) : d \in {x \in WalkDirs(fs, <<>>) : Exists(fs, Append(x, SKILL_FILE))}}

-----------------------------------------------------------------------------
(* The programs that a run does not start stay as they are *)

VerifierIdle ==
    /\ srcFs = NoTree
    /\ impFs = NoTree
    /\ imported_skill_files = <<>>
    /\ idx = 1
    /\ failures = <<>>
    /\ checked = 0
    /\ scans = 0
    /\ calls = <<>>
    /\ run = 1
    /\ prev = "none"

ReporterIdle ==
    /\ roots = <<>>
    /\ rootIdx = 1
    /\ had_missing_root = FALSE

DetectorIdle ==
    /\ tree = NoTree
    /\ skill_files = <<>>
    /\ detected = <<>>

AccountIdle ==
    /\ balance = 0
    /\ transaction_history = <<>>
    /\ result = "none"
    /\ initial = 0
    /\ ops = <<>>

ValidatorIdle ==
    /\ files = <<>>
    /\ fileIdx = 1
    /\ args = [wave |-> "all"]

-----------------------------------------------------------------------------
(* verify-skill-completeness.py *)

TreeOf(root) == IF root = "source" THEN srcFs ELSE impFs

\* visible_entries(skill_dir), lines 34-39, on the listing iterdir() hands back
visible_entries(listing) ==
    {Last(listing[i]) : i \in {j \in 1..Len(listing) : Last(listing[j]) \notin IGNORED_NAMES}}

\* line 73 without sorted()
MissingUnsorted(iterated) == iterated

\* line 73, on the order in which the difference set is iterated
Missing(iterated) == Sorted(iterated, ByStr(iterated))

\* line 62
SourceSkillDir(rel_skill) == Join("source", Parent(rel_skill))

\* line 71: imported_skill_file.parent
ImportedSkillDir(imported_skill_file) ==
    PathOf(imported_skill_file.root, Parent(imported_skill_file.rel))

\* the failure record of lines 65-67
MissingSourceFailure(rel_skill, source_skill_dir) ==
    [kind |-> "source-missing", skill |-> Parent(rel_skill),
     detail |-> source_skill_dir]

\* the failure record of lines 75-77
MissingEntriesFailure(rel_skill, missing) ==
    [kind |-> "missing-entries", skill |-> Parent(rel_skill), detail |-> missing]

\* the line of lines 48 and 52
RootError(which) == [kind |-> "root-error", root |-> which]

\* the line of line 82
FailedHeader == [kind |-> "failed-header"]

\* the line of line 84
Bullet(failure) == [kind |-> "bullet", failure |-> failure]

\* the line of lines 87-89
PassedLine(n) == [kind |-> "passed", count |-> n]

\* the lines of lines 82-84
FailureReport(fl) == <<FailedHeader>> \o [i \in 1..Len(fl) |-> Bullet(fl[i])]

\* beneath the import root "a" and "b" are directories
ImportKinds == [n \in DirNames |-> {"dir"}]

\* beneath the source root "a" may be a plain file
SourceKinds == [n \in DirNames |-> IF n = "a" THEN {"dir", "file"} ELSE {"dir"}]

ImportTrees == BadRoots \cup TreesUpTo(MaxImportEntries, ImportNames, ImportKinds)

SourceTrees == BadRoots \cup TreesUpTo(MaxSourceEntries, SourceNames, SourceKinds)

VerifierInit ==
    /\ impFs \in ImportTrees
    /\ srcFs \in SourceTrees
    /\ pc = "check_source_root"
    /\ imported_skill_files = <<>>
    /\ idx = 1
    /\ failures = <<>>
    /\ checked = 0
    /\ scans = 0
    /\ calls = <<>>
    /\ out = <<>>
    /\ err = <<>>
    /\ ret = "none"
    /\ run = 1
    /\ prev = "none"
    /\ ReporterIdle
    /\ DetectorIdle
    /\ AccountIdle
    /\ ValidatorIdle

\* lines 47-49 without the check
CheckSourceRootSkipped ==
    /\ pc = "check_source_root"
    /\ pc' = "check_import_root"
    /\ UNCHANGED <<out, err, ret, verifierVars>>
    /\ UNCHANGED besideVerifier

\* lines 47-49
CheckSourceRoot ==
    /\ pc = "check_source_root"
    /\ IF ~IsDir(srcFs, <<>>)
       THEN /\ err' = Append(err, RootError("source"))
            /\ ret' = 1
            /\ pc' = "done"
       ELSE /\ pc' = "check_import_root"
            /\ UNCHANGED <<err, ret>>
    /\ UNCHANGED <<out, verifierVars>>
    /\ UNCHANGED besideVerifier

\* lines 51-53 without the check
CheckImportRootSkipped ==
    /\ pc = "check_import_root"
    /\ pc' = "scan"
    /\ UNCHANGED <<out, err, ret, verifierVars>>
    /\ UNCHANGED besideVerifier

\* lines 51-53
CheckImportRoot ==
    /\ pc = "check_import_root"
    /\ IF ~IsDir(impFs, <<>>)
       THEN /\ err' = Append(err, RootError("import"))
            /\ ret' = 1
            /\ pc' = "done"
       ELSE /\ pc' = "scan"
            /\ UNCHANGED <<err, ret>>
    /\ UNCHANGED <<out, verifierVars>>
    /\ UNCHANGED besideVerifier

\* line 55 without sorted()
ScanResultUnsorted(listing) ==
    [i \in 1..Len(listing) |-> Join("import", listing[i])]

\* line 55, on the listing the traversal hands back
ScanResult(listing) ==
    LET found == [i \in 1..Len(listing) |-> Join("import", listing[i])]
    IN  Sorted(found, ByPath(found))

\* lines 55-58
Scan ==
    /\ pc = "scan"
    /\ \E listing \in Orders(RGlob(impFs)) :
           imported_skill_files' = ScanResult(listing)
    /\ scans' = scans + 1
    /\ idx' = 1
    /\ failures' = <<>>
    /\ checked' = 0
    /\ pc' = "loop"
    /\ UNCHANGED <<out, err, ret, srcFs, impFs, calls, run, prev>>
    /\ UNCHANGED besideVerifier

\* line 68 as a break
AfterBreak(i, n) == n + 1

\* where the loop goes after the continue of line 68
AfterContinue(i, n) == i + 1

\* lines 60-68: the source skill directory is missing
LoopSourceMissing ==
    /\ pc = "loop"
    /\ idx <= Len(imported_skill_files)
    /\ LET imported_skill_file == imported_skill_files[idx]
           rel_skill == RelativeTo(imported_skill_file, "import")
           source_skill_dir == SourceSkillDir(rel_skill)
       IN  /\ ~IsDir(TreeOf(source_skill_dir.root), source_skill_dir.rel)
           /\ failures' = Append(failures, MissingSourceFailure(rel_skill, source_skill_dir))
    /\ idx' = AfterContinue(idx, Len(imported_skill_files))
    /\ UNCHANGED <<ioVars, srcFs, impFs, imported_skill_files, checked, scans,
                   calls, run, prev>>
    /\ UNCHANGED besideVerifier

\* lines 74-77 left out: a pair with missing entries is not recorded
AfterCompareForgets(fl, rel_skill, missing) == fl

\* the list of failures after lines 74-77
AfterCompare(fl, rel_skill, missing) ==
    IF missing # <<>> THEN Append(fl, MissingEntriesFailure(rel_skill, missing)) ELSE fl

\* line 79 moved into an else branch of line 74
AfterCheckedOnlyClean(n, missing) == IF missing = <<>> THEN n + 1 ELSE n

\* the counter after line 79
AfterChecked(n, missing) == n + 1

\* what the history keeps of one visible_entries call
Call(dir, entries) == [dir |-> dir, entries |-> entries]

\* lines 60-64, 70-79: the pair is compared
LoopCompare ==
    /\ pc = "loop"
    /\ idx <= Len(imported_skill_files)
    /\ LET imported_skill_file == imported_skill_files[idx]
           rel_skill == RelativeTo(imported_skill_file, "import")
           source_skill_dir == SourceSkillDir(rel_skill)
           imported_skill_dir == ImportedSkillDir(imported_skill_file)
       IN  /\ IsDir(TreeOf(source_skill_dir.root), source_skill_dir.rel)
           /\ \E src_listing \in Orders(IterDir(TreeOf(source_skill_dir.root), source_skill_dir.rel)),
                 imp_listing \in Orders(IterDir(TreeOf(imported_skill_dir.root), imported_skill_dir.rel)) :
                 LET source_entries == visible_entries(src_listing)
                     imported_entries == visible_entries(imp_listing)
                 IN  /\ calls' = calls \o <<Call(source_skill_dir, source_entries),
                                            Call(imported_skill_dir, imported_entries)>>
                     /\ \E iterated \in Orders(source_entries \ imported_entries) :
                            LET missing == Missing(iterated)
                            IN  /\ failures' = AfterCompare(failures, rel_skill, missing)
                                /\ checked' = AfterChecked(checked, missing)
    /\ idx' = idx + 1
    /\ UNCHANGED <<ioVars, srcFs, impFs, imported_skill_files, scans, run, prev>>
    /\ UNCHANGED besideVerifier

\* lines 81-85 without the return of line 85: the run falls through to 87-90
ReportFailuresFallThrough ==
    /\ pc = "loop"
    /\ idx > Len(imported_skill_files)
    /\ failures # <<>>
    /\ err' = err \o FailureReport(failures)
    /\ out' = Append(out, PassedLine(checked))
    /\ ret' = 0
    /\ pc' = "done"
    /\ UNCHANGED besideReporter
    /\ UNCHANGED besideVerifier

\* lines 81-85
ReportFailures ==
    /\ pc = "loop"
    /\ idx > Len(imported_skill_files)
    /\ failures # <<>>
    /\ err' = err \o FailureReport(failures)
    /\ ret' = 1
    /\ pc' = "done"
    /\ UNCHANGED <<out, verifierVars>>
    /\ UNCHANGED besideVerifier

\* lines 87-90
ReportPassed ==
    /\ pc = "loop"
    /\ idx > Len(imported_skill_files)
    /\ failures = <<>>
    /\ out' = Append(out, PassedLine(checked))
    /\ ret' = 0
    /\ pc' = "done"
    /\ UNCHANGED <<err, verifierVars>>
    /\ UNCHANGED besideVerifier

\* the script is run again on the same trees
RunAgain ==
    /\ pc = "done"
    /\ run < MaxRuns
    /\ prev' = [out |-> out, err |-> err, ret |-> ret]
    /\ run' = run + 1
    /\ pc' = "check_source_root"
    /\ imported_skill_files' = <<>>
    /\ idx' = 1
    /\ failures' = <<>>
    /\ checked' = 0
    /\ scans' = 0
    /\ calls' = <<>>
    /\ out' = <<>>
    /\ err' = <<>>
    /\ ret' = "none"
    /\ UNCHANGED <<srcFs, impFs>>
    /\ UNCHANGED besideVerifier

VerifierNext ==
    \/ CheckSourceRoot
    \/ CheckImportRoot
    \/ Scan
    \/ LoopSourceMissing
    \/ LoopCompare
    \/ ReportFailures
    \/ ReportPassed
    \/ RunAgain

VerifierSpec == VerifierInit /\ [][VerifierNext]_vars

-----------------------------------------------------------------------------
(* report-symlinks.py *)

\* Path.resolve() of a symbolic link: the canonical path of what it points to
Resolve(root, rel) == [target_of |-> PathOf(root, rel)]

\* line 31: rows are ordered by the string of their relative path; among the
\* names of ReportNames that is the order of the parts
RowLess(x, y) == PartsLess(x.rel, y.rel)

\* the pairs of members of the list s that are in the order RowLess
ByRow(s) == {pr \in Range(s) \X Range(s) : RowLess(pr[1], pr[2])}

\* detect_symlinked_skills(root), lines 25-31, on the listing rglob hands back
detect_symlinked_skills(root, fs, listing) ==
    LET skill_dir(skill_file) == Parent(skill_file)
        linked(skill_file) == IsSymlink(fs, skill_dir(skill_file))
        found == SelectSeq(listing, linked)
        symlinked_skills ==
            [i \in 1..Len(found) |->
                [rel |-> RelativeTo(PathOf(root, skill_dir(found[i])), root),
                 target |-> Resolve(root, skill_dir(found[i]))]]
    IN  Sorted(symlinked_skills, ByRow(symlinked_skills))

\* the line of line 41
MissingRootLine(root) == [kind |-> "root-error", root |-> root]

\* the line of line 46
HeaderLine(root) == [kind |-> "header", root |-> root]

\* the line of line 48
NoneFoundLine == [kind |-> "none-found"]

\* lines 51-52 with the first row skipped
SymlinkLinesButFirst(symlinks) ==
    [i \in 1..(Len(symlinks) - 1) |->
        [kind |-> "symlink", rel |-> symlinks[i + 1].rel,
         target |-> symlinks[i + 1].target]]

\* the lines of lines 51-52
SymlinkLines(symlinks) ==
    [i \in 1..Len(symlinks) |->
        [kind |-> "symlink", rel |-> symlinks[i].rel, target |-> symlinks[i].target]]

\* a root that is a symbolic link to a directory
AsLink(fs) == [fs EXCEPT ![<<>>] = "link"]

ReportKinds == [n \in DirNames |-> {"dir", "link"}]

ReportTrees ==
    LET trees == TreesUpTo(MaxRootEntries, ReportNames, ReportKinds)
    IN  BadRoots \cup trees \cup {AsLink(fs) : fs \in trees}

ReporterInit ==
    /\ roots \in UNION {[1..n -> ReportTrees] : n \in 1..MaxRoots}
    /\ rootIdx = 1
    /\ had_missing_root = FALSE
    /\ pc = "roots"
    /\ out = <<>>
    /\ err = <<>>
    /\ ret = "none"
    /\ VerifierIdle
    /\ DetectorIdle
    /\ AccountIdle
    /\ ValidatorIdle

\* line 42 left out
FlagNotSet(flag) == flag

\* line 42
FlagAfterMissingRoot(flag) == TRUE

\* line 43 as a break
NextRootAfterBreak(i, n) == n + 1

\* where the loop goes after the continue of line 43
NextRootAfterContinue(i, n) == i + 1

\* lines 38-43: the root is not a directory
ReporterRootMissing ==
    /\ pc = "roots"
    /\ rootIdx <= Len(roots)
    /\ ~IsDir(roots[rootIdx], <<>>)
    /\ err' = Append(err, MissingRootLine(rootIdx))
    /\ had_missing_root' = FlagAfterMissingRoot(had_missing_root)
    /\ rootIdx' = NextRootAfterContinue(rootIdx, Len(roots))
    /\ UNCHANGED <<pc, out, ret, roots>>
    /\ UNCHANGED besideReporter

\* lines 38-40, 45-49: a valid root without symlinked skills
ReporterNoSymlinks ==
    /\ pc = "roots"
    /\ rootIdx <= Len(roots)
    /\ IsDir(roots[rootIdx], <<>>)
    /\ \E listing \in Orders(RGlob(roots[rootIdx])) :
          LET symlinks == detect_symlinked_skills(rootIdx, roots[rootIdx], listing)
          IN  /\ symlinks = <<>>
              /\ out' = out \o <<HeaderLine(rootIdx), NoneFoundLine>>
    /\ rootIdx' = rootIdx + 1
    /\ UNCHANGED <<pc, err, ret, roots, had_missing_root>>
    /\ UNCHANGED besideReporter

\* lines 38-40, 45-47, 51-52: a valid root with symlinked skills
ReporterListSymlinks ==
    /\ pc = "roots"
    /\ rootIdx <= Len(roots)
    /\ IsDir(roots[rootIdx], <<>>)
    /\ \E listing \in Orders(RGlob(roots[rootIdx])) :
          LET symlinks == detect_symlinked_skills(rootIdx, roots[rootIdx], listing)
          IN  /\ symlinks # <<>>
              /\ out' = out \o <<HeaderLine(rootIdx)>> \o SymlinkLines(symlinks)
    /\ rootIdx' = rootIdx + 1
    /\ UNCHANGED <<pc, err, ret, roots, had_missing_root>>
    /\ UNCHANGED besideReporter

\* line 54
ReporterReturn ==
    /\ pc = "roots"
    /\ rootIdx > Len(roots)
    /\ ret' = IF had_missing_root THEN 1 ELSE 0
    /\ pc' = "done"
    /\ UNCHANGED <<out, err, roots, rootIdx, had_missing_root>>
    /\ UNCHANGED besideReporter

ReporterNext ==
    \/ ReporterRootMissing
    \/ ReporterNoSymlinks
    \/ ReporterListSymlinks
    \/ ReporterReturn

ReporterSpec == ReporterInit /\ [][ReporterNext]_vars

-----------------------------------------------------------------------------
(* detect_symlinked_skills on one root that is a directory, step by step,   *)
(* and the lines main() prints for it                                      *)

DetectTrees ==
    LET trees == TreesUpTo(MaxDetectEntries, DetectNames, ReportKinds)
    IN  trees \cup {AsLink(fs) : fs \in trees}

DetectorInit ==
    /\ tree \in DetectTrees
    /\ skill_files = <<>>
    /\ detected = <<>>
    /\ pc = "rglob"
    /\ out = <<>>
    /\ err = <<>>
    /\ ret = "none"
    /\ VerifierIdle
    /\ ReporterIdle
    /\ AccountIdle
    /\ ValidatorIdle

\* line 27: the traversal hands back the marker files it finds, in some order
DetectScan ==
    /\ pc = "rglob"
    /\ skill_files' \in Orders(RGlob(tree))
    /\ pc' = "filter"
    /\ UNCHANGED <<out, err, ret, tree, detected>>
    /\ UNCHANGED <<verifierVars, reporterVars, accountVars, validatorVars>>

\* lines 26-31
DetectReturn ==
    /\ pc = "filter"
    /\ detected' = detect_symlinked_skills("root", tree, skill_files)
    /\ pc' = "print"
    /\ UNCHANGED <<out, err, ret, tree, skill_files>>
    /\ UNCHANGED <<verifierVars, reporterVars, accountVars, validatorVars>>

\* lines 46-52
DetectPrint ==
    /\ pc = "print"
    /\ out' = out \o <<HeaderLine("root")>> \o
                 (IF detected = <<>> THEN <<NoneFoundLine>> ELSE SymlinkLines(detected))
    /\ pc' = "done"
    /\ UNCHANGED <<err, ret, tree, skill_files, detected>>
    /\ UNCHANGED <<verifierVars, reporterVars, accountVars, validatorVars>>

DetectorNext ==
    \/ DetectScan
    \/ DetectReturn
    \/ DetectPrint

DetectorSpec == DetectorInit /\ [][DetectorNext]_vars

-----------------------------------------------------------------------------
(* What the claims speak of, stated on the trees themselves *)

IsDirectory(fs, p) == p \in DOMAIN fs /\ fs[p] \in {"dir", "link"}

SourceRootOk == IsDirectory(srcFs, <<>>)

ImportRootOk == IsDirectory(impFs, <<>>)

RootsOk == SourceRootOk /\ ImportRootOk

\* the marker files physically beneath a root: at any depth, in directories
\* that are not reached through a symbolic link
MarkerFiles(fs) ==
    {p \in DOMAIN fs :
        /\ p # <<>>
        /\ p[Len(p)] = "SKILL.md"
        /\ \A k \in 1..(Len(p) - 1) : fs[SubSeq(p, 1, k)] = "dir"}

DirOf(marker) == SubSeq(marker, 1, Len(marker) - 1)

ChildNames(fs, d) ==
    {p[Len(p)] : p \in {q \in DOMAIN fs : Len(q) = Len(d) + 1 /\ SubSeq(q, 1, Len(d)) = d}}

Ignored == {".DS_Store", "__pycache__"}

\* source minus import, among the names that are not ignored
Difference(d) == (ChildNames(srcFs, d) \ Ignored) \ (ChildNames(impFs, d) \ Ignored)

Occurrences(s, x) == Cardinality({i \in 1..Len(s) : s[i] = x})

\* the markers the loop has been through
Processed == {imported_skill_files[k].rel : k \in 1..(idx - 1)}

SourceMissingRecords == {i \in 1..Len(failures) : failures[i].kind = "source-missing"}

MissingEntriesRecords(d) ==
    {i \in 1..Len(failures) : failures[i].kind = "missing-entries" /\ failures[i].skill = d}

Scanning == pc \in {"loop", "done"} /\ scans > 0

Finished == pc = "done" /\ RootsOk

-----------------------------------------------------------------------------
(* Claims about verify-skill-completeness.py, under VerifierSpec *)

\* C1: main() returns 1 if the source root or the import root is not a
\* directory or a failure was recorded, and 0 in every other case.
C1_ExitCode ==
    pc = "done" =>
        ret = IF ~SourceRootOk \/ ~ImportRootOk \/ failures # <<>> THEN 1 ELSE 0

C1_Witness ==
    /\ pc = "done" /\ RootsOk /\ failures # <<>> /\ ret = 1
    /\ run = 2 /\ prev.ret = 1

\* C2: a marker file whose source directory is missing gets exactly one
\* failure record naming that directory, and the scan goes on: at the end
\* every marker file under the import root was paired, and either recorded as
\* a pairing failure or compared.
C2_ScanContinues ==
    Finished =>
        \A m \in MarkerFiles(impFs) :
            LET d == DirOf(m)
            IN  IF ~IsDirectory(srcFs, d)
                THEN Occurrences(failures,
                         [kind |-> "source-missing", skill |-> d,
                          detail |-> [root |-> "source", rel |-> d]]) = 1
                ELSE /\ \E i \in 1..Len(calls) : calls[i].dir = [root |-> "source", rel |-> d]
                     /\ \A i \in SourceMissingRecords : failures[i].skill # d

C2_Witness ==
    /\ Finished
    /\ Len(imported_skill_files) >= 2
    /\ ~IsDirectory(srcFs, DirOf(imported_skill_files[1].rel))
    /\ failures[1].kind = "source-missing"
    /\ IsDirectory(srcFs, DirOf(imported_skill_files[2].rel))
    /\ checked = 1

\* C3: for every marker file whose source directory exists, the names
\* reported missing are exactly (visible children of the source directory)
\* minus (visible children of the imported directory), in sorted order, and a
\* missing-entries failure is recorded iff that difference is not empty.
C3_MissingIsSortedDifference ==
    Scanning =>
        \A m \in Processed :
            LET d == DirOf(m)
                recs == MissingEntriesRecords(d)
            IN  IsDirectory(srcFs, d) =>
                    /\ (Difference(d) = {}) <=> (recs = {})
                    /\ Cardinality(recs) <= 1
                    /\ \A i \in recs :
                          LET names == failures[i].detail
                          IN  /\ Range(names) = Difference(d)
                              /\ \A j, k \in 1..Len(names) :
                                    j < k => NameRank[names[j]] < NameRank[names[k]]

C3_Witness ==
    /\ Scanning
    /\ \E i \in 1..Len(failures) :
          /\ failures[i].kind = "missing-entries"
          /\ Len(failures[i].detail) >= 2

\* C4: no ignored name (.DS_Store, __pycache__) is ever reported missing,
\* also when the source directory has it and the imported one has not; every
\* entry set, source side or import side, is the directory's child names
\* without the ignored ones.
C4_IgnoredNeverReported ==
    /\ \A i \in 1..Len(failures) :
          failures[i].kind = "missing-entries" =>
              Range(failures[i].detail) \cap Ignored = {}
    /\ \A i \in 1..Len(calls) :
          calls[i].entries =
              ChildNames(IF calls[i].dir.root = "source" THEN srcFs ELSE impFs,
                         calls[i].dir.rel) \ Ignored

C4_Witness ==
    \E i \in 1..Len(calls) :
        /\ calls[i].dir.root = "source"
        /\ ".DS_Store" \in ChildNames(srcFs, calls[i].dir.rel)
        /\ ".DS_Store" \notin ChildNames(impFs, calls[i].dir.rel)
        /\ "helper.py" \in ChildNames(srcFs, calls[i].dir.rel)
        /\ failures # <<>>

\* C5: with a root that is not a directory the run ends at once: exit code
\* 1 after one root-level error, no enumeration, no comparator call, no
\* failure record; the comparator is only ever called on directories.
C5_RootFailsFast ==
    /\ ~RootsOk => scans = 0 /\ calls = <<>> /\ failures = <<>> /\ out = <<>>
    /\ (pc = "done" /\ ~RootsOk) =>
          /\ ret = 1
          /\ Len(err) = 1
          /\ err[1] = [kind |-> "root-error",
                       root |-> IF ~SourceRootOk THEN "source" ELSE "import"]
    /\ \A i \in 1..Len(calls) :
          IsDirectory(IF calls[i].dir.root = "source" THEN srcFs ELSE impFs,
                      calls[i].dir.rel)

C5_Witness ==
    /\ pc = "done" /\ SourceRootOk /\ ~ImportRootOk
    /\ MarkerFiles(srcFs) = {}
    /\ ret = 1 /\ scans = 0

\* C6: the counter of checked pairs is the number of marker files whose
\* source directory existed, whatever the comparison found; every marker
\* file gives one outcome, so at the end counter + pairing failures = number
\* of marker files under the import root.
C6_CheckedCounter ==
    /\ Scanning =>
          /\ checked + Cardinality(SourceMissingRecords) = idx - 1
          /\ checked = Cardinality({k \in 1..(idx - 1) :
                           IsDirectory(srcFs, DirOf(imported_skill_files[k].rel))})
    /\ Finished =>
          checked + Cardinality(SourceMissingRecords) = Cardinality(MarkerFiles(impFs))

C6_Witness ==
    /\ Finished
    /\ checked = 1
    /\ Cardinality(SourceMissingRecords) = 1
    /\ \E i \in 1..Len(failures) : failures[i].kind = "missing-entries"

\* C7: a second run on the same trees prints the same lines in the same
\* order and returns the same exit code, whatever order the listings and
\* the scan hand back their entries in.
C7_SameOutputTwice ==
    (pc = "done" /\ run > 1) => prev = [out |-> out, err |-> err, ret |-> ret]

C7_Witness ==
    /\ pc = "done" /\ run = 2
    /\ Len(imported_skill_files) >= 2
    /\ Len(err) = 3
    /\ \E i \in 1..Len(failures) :
          failures[i].kind = "missing-entries" /\ Len(failures[i].detail) >= 2

\* C8: a run past the root checks ends either with a header and one bullet
\* per failure on the error stream, nothing on standard output and exit code
\* 1, or with one line on standard output giving the count, nothing on the
\* error stream and exit code 0; never the success line after a failure.
C8_ReportShape ==
    Finished =>
        \/ /\ failures # <<>>
           /\ Len(err) = Len(failures) + 1
           /\ err[1] = [kind |-> "failed-header"]
           /\ \A i \in 1..Len(failures) :
                 err[i + 1] = [kind |-> "bullet", failure |-> failures[i]]
           /\ out = <<>>
           /\ ret = 1
        \/ /\ failures = <<>>
           /\ err = <<>>
           /\ out = <<[kind |-> "passed", count |-> checked]>>
           /\ ret = 0

C8_Witness ==
    /\ Finished
    /\ Len(failures) = 2
    /\ Len(err) = 3
    /\ out = <<>>

-----------------------------------------------------------------------------
(* Claims about report-symlinks.py, under ReporterSpec *)

ValidRoots == {i \in 1..Len(roots) : IsDirectory(roots[i], <<>>)}

InvalidRoots == (1..Len(roots)) \ ValidRoots

\* the members of a set of root positions, in argument order
RECURSIVE InOrder(_)
InOrder(S) ==
    IF S = {} THEN <<>>
    ELSE LET m == CHOOSE x \in S : \A y \in S : x <= y
         IN  <<m>> \o InOrder(S \ {m})

IsHeader(line) == line.kind = "header"

\* C9: main() returns 1 iff some given root is not a directory, 0 otherwise;
\* a valid root without symlinked skills never makes the exit code non-zero.
C9_ExitCode ==
    pc = "done" => ret = IF InvalidRoots # {} THEN 1 ELSE 0

C9_Witness ==
    /\ pc = "done"
    /\ InvalidRoots = {}
    /\ \E k \in 1..Len(out) : out[k].kind = "none-found"
    /\ ret = 0

\* C10: an invalid root is fatal to that root only: every valid root is
\* reported, in argument order, with a header followed by its symlink lines
\* or the no-symlinks line; every invalid root gives exactly one error line
\* and no header.
C10_OtherRootsReported ==
    pc = "done" =>
        /\ err = [k \in 1..Cardinality(InvalidRoots) |->
                     [kind |-> "root-error", root |-> InOrder(InvalidRoots)[k]]]
        /\ SelectSeq(out, IsHeader) =
               [k \in 1..Cardinality(ValidRoots) |->
                     [kind |-> "header", root |-> InOrder(ValidRoots)[k]]]
        /\ out # <<>> => out[1].kind = "header"
        /\ \A k \in 1..Len(out) :
              /\ out[k].kind = "header" =>
                    k < Len(out) /\ out[k + 1].kind \in {"none-found", "symlink"}
              /\ out[k].kind = "none-found" =>
                    /\ out[k - 1].kind = "header"
                    /\ k < Len(out) => out[k + 1].kind = "header"

C10_Witness ==
    /\ pc = "done"
    /\ Len(roots) = 2
    /\ InvalidRoots = {1}
    /\ Len(err) = 1
    /\ Len(out) >= 2
    /\ out[2].kind = "symlink"

-----------------------------------------------------------------------------
(* Claims about detect_symlinked_skills and the scan, under DetectorSpec *)

Returned == pc \in {"print", "done"}

\* the skill units of the tree whose directory is itself a symbolic link
LinkedSkillDirs(fs) ==
    {d \in DOMAIN fs : fs[d] = "link" /\ (d \o <<"SKILL.md">>) \in DOMAIN fs}

\* C11: a skill unit whose directory is itself a symbolic link is always in
\* the detector's output, paired with the resolved path of the link target.
C11_LinkedSkillReported ==
    Returned =>
        \A d \in LinkedSkillDirs(tree) :
            \E i \in 1..Len(detected) :
                detected[i] = [rel |-> d,
                               target |-> [target_of |-> [root |-> "root", rel |-> d]]]

\* C12: the detector never reports a skill unit whose own directory is a
\* regular directory, also when a directory above it is a symbolic link.
C12_OnlyDirectParentTested ==
    Returned =>
        \A i \in 1..Len(detected) :
            /\ detected[i].rel \in DOMAIN tree
            /\ tree[detected[i].rel] = "link"

C12_Witness ==
    /\ Returned
    /\ tree[<<>>] = "link"
    /\ \E i \in 1..Len(skill_files) :
          LET d == DirOf(skill_files[i])
          IN  /\ d # <<>>
              /\ tree[d] = "dir"
              /\ \A k \in 1..Len(detected) : detected[k].rel # d

-----------------------------------------------------------------------------
(* examples/basic_examples.py: class BankAccount.  One object; every step is
   one call of deposit or withdraw with an amount the caller chooses.  ops is
   the log of the calls made so far, each with the value the call returned;
   initial is the balance the constructor was given. *)

MaxCalls == 3

MaxAmount == 3

MaxInitial == 2

\* amounts callers pass: negative, zero, within and beyond the balance
Amounts == (0 - 1)..MaxAmount

\* the constructor stores whatever balance it is given, negative ones too
InitialBalances == (0 - 1)..MaxInitial

DepositAcceptsZero(amount) == amount >= 0

\* line 58
DepositAccepts(amount) == amount > 0

WithdrawAcceptsOverdraft(amount, self_balance) == 0 < amount

\* line 66
WithdrawAccepts(amount, self_balance) == 0 < amount /\ amount <= self_balance

\* line 60: f"Deposit: +${amount}"
DepositEntry(amount) == [text |-> "Deposit: +$", amount |-> amount]

WithdrawalEntryAsDeposit(amount) == [text |-> "Deposit: +$", amount |-> amount]

\* line 68: f"Withdrawal: -${amount}"
WithdrawalEntry(amount) == [text |-> "Withdrawal: -$", amount |-> amount]

\* lines 50-54
AccountInit ==
    /\ initial \in InitialBalances
    /\ balance = initial
    /\ transaction_history = <<>>
    /\ result = "none"
    /\ ops = <<>>
    /\ pc = "account"
    /\ out = <<>>
    /\ err = <<>>
    /\ ret = "none"
    /\ VerifierIdle
    /\ ReporterIdle
    /\ DetectorIdle
    /\ ValidatorIdle

\* lines 56-62
deposit(amount) ==
    /\ pc = "account"
    /\ Len(ops) < MaxCalls
    /\ IF DepositAccepts(amount)
       THEN /\ balance' = balance + amount
            /\ transaction_history' = Append(transaction_history, DepositEntry(amount))
            /\ result' = TRUE
       ELSE /\ result' = FALSE
            /\ UNCHANGED <<balance, transaction_history>>
    /\ ops' = Append(ops, [op |-> "deposit", amount |-> amount, returned |-> result'])
    /\ UNCHANGED <<initial, ioVars>>
    /\ UNCHANGED <<verifierVars, reporterVars, detectorVars, validatorVars>>

\* lines 64-70
withdraw(amount) ==
    /\ pc = "account"
    /\ Len(ops) < MaxCalls
    /\ IF WithdrawAccepts(amount, balance)
       THEN /\ balance' = balance - amount
            /\ transaction_history' = Append(transaction_history, WithdrawalEntry(amount))
            /\ result' = TRUE
       ELSE /\ result' = FALSE
            /\ UNCHANGED <<balance, transaction_history>>
    /\ ops' = Append(ops, [op |-> "withdraw", amount |-> amount, returned |-> result'])
    /\ UNCHANGED <<initial, ioVars>>
    /\ UNCHANGED <<verifierVars, reporterVars, detectorVars, validatorVars>>

Deposit == \E amount \in Amounts : deposit(amount)

Withdraw == \E amount \in Amounts : withdraw(amount)

AccountNext ==
    \/ Deposit
    \/ Withdraw

AccountSpec == AccountInit /\ [][AccountNext]_vars

-----------------------------------------------------------------------------
(* Claims about BankAccount, under AccountSpec *)

\* the log of the log that returned True, in call order
Successful(log) == SelectSeq(log, LAMBDA c : c.returned)

SuccessfulOf(kind, log) == SelectSeq(log, LAMBDA c : c.returned /\ c.op = kind)

RECURSIVE SumAmounts(_)
SumAmounts(log) ==
    IF log = <<>> THEN 0 ELSE log[1].amount + SumAmounts(Tail(log))

EntryFor(call) ==
    [text |-> IF call.op = "deposit" THEN "Deposit: +$" ELSE "Withdrawal: -$",
     amount |-> call.amount]

\* what one call must do, by the amount and the balance before the call
CallAsSpecified ==
    LET call == Last(ops')
        amount == call.amount
        untouched == balance' = balance /\ transaction_history' = transaction_history
    IN  /\ (call.op = "deposit" /\ amount <= 0) =>
               result' = FALSE /\ untouched
        /\ (call.op = "withdraw" /\ (amount <= 0 \/ amount > balance)) =>
               result' = FALSE /\ untouched
        /\ (call.op = "deposit" /\ amount > 0) =>
               result' = TRUE /\ balance' = balance + amount
        /\ (call.op = "withdraw" /\ 0 < amount /\ amount <= balance) =>
               result' = TRUE /\ balance' = balance - amount

\* C15: a rejected deposit (amount <= 0) or withdrawal (amount <= 0 or above
\* the balance) returns False and leaves balance and history as they were; an
\* accepted deposit returns True and adds the amount, an accepted withdrawal
\* returns True and subtracts it.
C15_RejectedChangesNothing ==
    [][Len(ops') = Len(ops) + 1 => CallAsSpecified]_vars

C15_Witness ==
    /\ Len(ops) = 3
    /\ ops[1].op = "deposit" /\ ops[1].returned
    /\ ops[2].op = "deposit" /\ ~ops[2].returned
    /\ ops[3].op = "withdraw" /\ ~ops[3].returned /\ ops[3].amount > balance
    /\ result = FALSE
    /\ Len(transaction_history) = 1

\* C16: the transaction history holds one entry per successful call and none
\* for a rejected one, in call order, each naming the kind of the operation
\* and its amount.
C16_HistoryIsSuccessfulCalls ==
    LET done == Successful(ops)
    IN  transaction_history = [i \in 1..Len(done) |-> EntryFor(done[i])]

C16_Witness ==
    /\ Len(ops) = 3
    /\ ops[1].op = "deposit" /\ ops[1].returned
    /\ ~ops[2].returned
    /\ ops[3].op = "withdraw" /\ ops[3].returned
    /\ Len(transaction_history) = 2
    /\ transaction_history[2].text = "Withdrawal: -$"

\* C18: an account opened with a non-negative balance never has a negative
\* balance, and its balance is the initial balance plus the successful
\* deposits minus the successful withdrawals.
C18_BalanceNeverNegative ==
    initial >= 0 =>
        /\ balance >= 0
        /\ balance = initial + SumAmounts(SuccessfulOf("deposit", ops))
                             - SumAmounts(SuccessfulOf("withdraw", ops))

C18_Witness ==
    /\ initial >= 0
    /\ Len(ops) = 3
    /\ balance = 0
    /\ \E i \in 1..3 : ops[i].op = "withdraw" /\ ops[i].returned
    /\ \E i \in 1..3 : ops[i].op = "deposit" /\ ops[i].returned
    /\ ops[3].op = "withdraw" /\ ~ops[3].returned /\ ops[3].amount > 0

-----------------------------------------------------------------------------
(* scripts/validate_skills.py.  main() after parse_args() has returned.  Each
   required file is missing, cannot be opened (a directory, no permission),
   holds something json.load rejects, or holds JSON. *)

\* lines 12-16
REQUIRED_FILES == <<"skills_index.json", "data/catalog.json", "data/aliases.json">>

FileStates == {"missing", "unreadable", "not-json", "json"}

\* lines 21-25: --wave, "all" when the option is not given
WaveLabels == {"all", "PR-0"}

\* the classes of the exceptions the loop body raises; all derive from Exception
ExceptionClasses == {"FileNotFoundError", "OSError", "JSONDecodeError"}

CaughtOnlyMissing(exc) == exc.class = "FileNotFoundError"

\* line 43: except Exception
Caught(exc) == exc.class \in ExceptionClasses

\* lines 29-34: the exception the call raises, of class "None" when it returns
validate_json_file(path, state) ==
    IF state = "missing"
    THEN [class |-> "FileNotFoundError",
          message |-> <<"Missing required metadata file: ", path>>]
    ELSE IF state = "unreadable"
    THEN [class |-> "OSError", message |-> <<"cannot open: ", path>>]
    ELSE IF state = "not-json"
    THEN [class |-> "JSONDecodeError", message |-> <<"Expecting value">>]
    ELSE [class |-> "None", message |-> <<>>]

\* line 44: f"ERROR [{args.wave}]: {exc}"
ErrorLine(wave, exc) == [text |-> "ERROR", wave |-> wave, exc |-> exc.message]

\* line 47
ValidationPassedLine(wave) == [text |-> "Validation passed for wave", wave |-> wave]

\* line 38
ValidatorInit ==
    /\ files \in [1..Len(REQUIRED_FILES) -> FileStates]
    /\ args \in [wave : WaveLabels]
    /\ fileIdx = 1
    /\ pc = "validate"
    /\ out = <<>>
    /\ err = <<>>
    /\ ret = "none"
    /\ VerifierIdle
    /\ ReporterIdle
    /\ DetectorIdle
    /\ AccountIdle

\* lines 41-42: the call returns and the loop goes on
ValidateFile ==
    /\ pc = "validate"
    /\ fileIdx <= Len(REQUIRED_FILES)
    /\ validate_json_file(REQUIRED_FILES[fileIdx], files[fileIdx]).class = "None"
    /\ fileIdx' = fileIdx + 1
    /\ UNCHANGED <<pc, out, err, ret, files, args>>
    /\ UNCHANGED <<verifierVars, reporterVars, detectorVars, accountVars>>

\* lines 41-45: the call raises; the handler prints and returns 1, and what
\* the handler does not catch leaves main()
ValidateRaises ==
    /\ pc = "validate"
    /\ fileIdx <= Len(REQUIRED_FILES)
    /\ LET exc == validate_json_file(REQUIRED_FILES[fileIdx], files[fileIdx])
       IN  /\ exc.class # "None"
           /\ IF Caught(exc)
              THEN /\ err' = Append(err, ErrorLine(args.wave, exc))
                   /\ ret' = 1
                   /\ pc' = "done"
              ELSE /\ pc' = "raised"
                   /\ UNCHANGED <<err, ret>>
    /\ UNCHANGED <<out, files, fileIdx, args>>
    /\ UNCHANGED <<verifierVars, reporterVars, detectorVars, accountVars>>

\* lines 47-48
ValidationPassed ==
    /\ pc = "validate"
    /\ fileIdx > Len(REQUIRED_FILES)
    /\ out' = Append(out, ValidationPassedLine(args.wave))
    /\ ret' = 0
    /\ pc' = "done"
    /\ UNCHANGED <<err, files, fileIdx, args>>
    /\ UNCHANGED <<verifierVars, reporterVars, detectorVars, accountVars>>

ValidatorNext ==
    \/ ValidateFile
    \/ ValidateRaises
    \/ ValidationPassed

ValidatorSpec == ValidatorInit /\ [][ValidatorNext]_vars

-----------------------------------------------------------------------------
(* Claims about validate_skills.main(), under ValidatorSpec *)

FileIsJson(i) == files[i] = "json"

AllFilesAreJson == \A i \in 1..3 : FileIsJson(i)

\* the first of the three files, in the order skills_index.json,
\* data/catalog.json, data/aliases.json, that is missing or does not parse
FirstBadFile == CHOOSE i \in 1..3 : ~FileIsJson(i) /\ \A k \in 1..(i - 1) : FileIsJson(k)

\* C19: main() returns 0 and prints the 'Validation passed' line exactly when
\* all three required files exist and parse; otherwise checking stops at the
\* first bad file in the fixed order, main() prints exactly one error line
\* (about that file) on the error stream, returns 1 and raises nothing.
C19_PassIffAllParse ==
    /\ REQUIRED_FILES = <<"skills_index.json", "data/catalog.json", "data/aliases.json">>
    /\ pc = "done" =>
          /\ ret \in {0, 1}
          /\ (ret = 0) <=> AllFilesAreJson
          /\ (out # <<>>) <=> AllFilesAreJson
          /\ AllFilesAreJson =>
                /\ out = <<[text |-> "Validation passed for wave", wave |-> args.wave]>>
                /\ err = <<>>
          /\ ~AllFilesAreJson =>
                /\ fileIdx = FirstBadFile
                /\ Len(err) = 1
                /\ err[1].text = "ERROR"
                /\ err[1].wave = args.wave
                /\ files[FirstBadFile] \in {"missing", "unreadable"} =>
                       err[1].exc[2] = REQUIRED_FILES[FirstBadFile]
    /\ pc = "validate" => \A i \in 1..(fileIdx - 1) : FileIsJson(i)
    /\ pc # "raised"

C19_Witness ==
    /\ pc = "done"
    /\ ret = 1
    /\ files[1] = "json"
    /\ files[2] = "not-json"
    /\ files[3] = "missing"
    /\ Len(err) = 1

-----------------------------------------------------------------------------
(* A claim about the verifier's success, under VerifierSpec *)

\* C17: when the verifier exits 0, the count of its success line is the
\* number of marker files under the import root, and every one of them has a
\* source directory whose visible child names are all child names of the
\* imported skill directory.
C17_SuccessMeansComplete ==
    (pc = "done" /\ ret = 0) =>
        /\ out = <<[kind |-> "passed", count |-> Cardinality(MarkerFiles(impFs))]>>
        /\ \A m \in MarkerFiles(impFs) :
               /\ IsDirectory(srcFs, DirOf(m))
               /\ (ChildNames(srcFs, DirOf(m)) \ Ignored) \subseteq ChildNames(impFs, DirOf(m))

C17_Witness ==
    /\ pc = "done"
    /\ ret = 0
    /\ Cardinality(MarkerFiles(impFs)) >= 2
    /\ \E m \in MarkerFiles(impFs) :
          /\ DirOf(m) # <<>>
          /\ ".DS_Store" \in ChildNames(srcFs, DirOf(m))
          /\ ".DS_Store" \notin ChildNames(impFs, DirOf(m))

====
